---- MODULE Spec2Model ----
(***************************************************************************)
(* A model of the ledger node of ex2 (node.py, block.py, transaction.py):  *)
(* its UTXO list, mempool, block store and chain pointer, and the          *)
(* operations connect, add_transaction_to_mempool, create_transaction,     *)
(* mine_block and notify_of_block with the reorganization they trigger.    *)
(*                                                                         *)
(* Byte strings are strings, and + on bytes is \o, so that two different   *)
(* field splits of the same bytes have the same hash, as in the code.      *)
(* sha256 is collision free: sha256(d) is the string "h(d)".               *)
(* Calls between nodes are synchronous: every action below is one whole    *)
(* top-level call, with all the calls it makes into the peers.             *)
(***************************************************************************)
EXTENDS Integers, Sequences, FiniteSets, TLC

VARIABLES nodes, nonce, submitted, hung, block_size

vars == <<nodes, nonce, submitted, hung, block_size>>

(***************************************************************************)
(* Bounds of the model.                                                    *)
(***************************************************************************)
\* blocks mined in one behaviour (each takes a fresh coinbase nonce)
MaxMined == 4
\* top-level calls of add_transaction_to_mempool in one behaviour
MaxSubmitted == 2
\* depth of nested add_transaction_to_mempool calls at which Python raises
\* RecursionError (sys.getrecursionlimit(), scaled down)
RecursionLimit == 4
\* blocks the miner and the spender of the two-role scenario mine
MaxMinedByMiner == 6
MaxMinedBySpender == 1
\* blocks the spender mines when blocks hold two transactions and a coinbase
MaxMinedBySpenderWide == 2
\* blocks mined in one behaviour with a withholding sender
MaxMinedWithheld == 5

Nodes == {"A", "B"}

\* the orders in which a for loop may visit a set of nodes (with two nodes
\* no set of peers has two elements, and one order stands for all)
Visits ==
    {o \in [1..Cardinality(Nodes) -> Nodes] : \A i, j \in DOMAIN o : o[i] = o[j] => i = j}

Orders ==
    IF Cardinality(Nodes) <= 2 THEN {CHOOSE o \in Visits : TRUE} ELSE Visits

(***************************************************************************)
(* utils.py (not among the sources): the constants and the crypto          *)
(* capability, after the specification's CryptoCapability.                 *)
(***************************************************************************)
PyNone == "None"

GENESIS_BLOCK_PREV == "Genesis"

\* utils.BLOCK_SIZE is fixed for a run of the program; its value is not in
\* the sources, so a behaviour starts with one of the two least capacities:
\* a coinbase and one transaction, or a coinbase and two
NarrowBlockSize == 2

WideBlockSize == 3

BLOCK_SIZE == block_size

\* gen_keys(): a node's key pair, named by its public key
PublicKey(n) == "k" \o n

sha256(data) == "h(" \o data \o ")"

\* sign(message, private_key): the private key is named by its public key
sign(message, key) == "s(" \o message \o "," \o key \o ")"

\* secrets.token_bytes(48): the j-th random nonce a node draws; the nonces
\* of one node differ, and a coinbase carries its miner's address, so that
\* no two coinbase transactions of a behaviour are equal
token_bytes(j) == "n" \o ToString(j)

\* bytes is truthy unless None or empty
Truthy(b) == b # PyNone /\ b # ""

(***************************************************************************)
(* transaction.py                                                          *)
(***************************************************************************)
Transaction(output, tx_input, signature) ==
    [output |-> output, input |-> tx_input, signature |-> signature]

get_txid(tx) ==
    sha256(tx.output \o (IF Truthy(tx.input) THEN tx.input ELSE "") \o tx.signature)

(***************************************************************************)
(* A signature that is a valid signature, under the key `output`, of the   *)
(* identifier of the very transaction (output, tx_input, signature) that   *)
(* carries it: the only kind of signature line 49 of node.py accepts,      *)
(* since that line verifies the signature over get_txid(), which covers    *)
(* the signature field.                                                    *)
(***************************************************************************)
SelfSig(output, tx_input) == "f(" \o output \o "," \o tx_input \o ")"

\* the nonces one node can draw in a behaviour
MaxNonce ==
    CHOOSE m \in {MaxMined, MaxMinedByMiner, MaxMinedWithheld} :
        \A k \in {MaxMined, MaxMinedByMiner, MaxMinedWithheld} : k <= m

\* the coinbase identifiers a behaviour can hold
CoinIds ==
    {sha256(PublicKey(n) \o token_bytes(j)) : n \in Nodes, j \in 1..MaxNonce}

verify(message, sig, pub_key) ==
    \/ sig = sign(message, pub_key)
    \/ \E i \in CoinIds \cup {PyNone} :
          /\ sig = SelfSig(pub_key, i)
          /\ message = get_txid(Transaction(pub_key, i, sig))

(***************************************************************************)
(* block.py                                                                *)
(***************************************************************************)
Block(prev_block_hash, transactions) ==
    [prev_block_hash |-> prev_block_hash, transactions |-> transactions]

RECURSIVE JoinTxids(_)
JoinTxids(txs) ==
    IF txs = <<>> THEN "" ELSE get_txid(Head(txs)) \o JoinTxids(Tail(txs))

get_block_hash(block) ==
    sha256(block.prev_block_hash \o JoinTxids(block.transactions))

(***************************************************************************)
(* node.py: helpers on one node's state                                    *)
(***************************************************************************)
NewNode ==
    [mempool |-> <<>>, connections |-> {}, blocks |-> <<>>,
     latest_block_hash |-> GENESIS_BLOCK_PREV, utxo |-> <<>>]

Range(s) == {s[i] : i \in DOMAIN s}

Reverse(s) == [i \in 1..Len(s) |-> s[Len(s) + 1 - i]]

\* [tx.get_txid() for tx in self.utxo]
UtxoIds(node) == {get_txid(t) : t \in Range(node.utxo)}

\* [tx for tx in utxo if tx.get_txid() != txid]
WithoutId(utxo, txid) == SelectSeq(utxo, LAMBDA t : get_txid(t) # txid)

\* self.blocks[h] = block
PutBlock(blocks, block) ==
    LET h == get_block_hash(block)
    IN  [k \in DOMAIN blocks \cup {h} |-> IF k = h THEN block ELSE blocks[k]]

_find_tx_in_utxo(node, tx) == \E i \in DOMAIN node.utxo : get_txid(node.utxo[i]) = get_txid(tx)

_is_valid_block(node, block) ==
    LET txs == block.transactions
        expected_hash == sha256(block.prev_block_hash \o JoinTxids(txs))
    IN  /\ get_block_hash(block) = expected_hash
        /\ Len(txs) <= BLOCK_SIZE
        /\ \A i, j \in DOMAIN txs : get_txid(txs[i]) = get_txid(txs[j]) => i = j
        /\ \A i \in DOMAIN txs :
              txs[i].input # PyNone =>
                 /\ _find_tx_in_utxo(node, txs[i])
                 /\ verify(txs[i].input \o txs[i].output, txs[i].signature, txs[i].output)
        /\ Cardinality({i \in DOMAIN txs : txs[i].input = PyNone}) = 1

RECURSIVE _get_chain_length(_, _)
_get_chain_length(blocks, block_hash) ==
    IF block_hash \in DOMAIN blocks
    THEN 1 + _get_chain_length(blocks, blocks[block_hash].prev_block_hash)
    ELSE 0

get_balance(node, n) ==
    Cardinality({i \in DOMAIN node.utxo : node.utxo[i].output = PublicKey(n)})

(***************************************************************************)
(* The result of a call: the state of all nodes after it, how it ended     *)
(* ("ok": returned; "raised": left by an uncaught exception; "hang": it    *)
(* never returns) and its return value.                                    *)
(***************************************************************************)
Result(S, status, ret) == [S |-> S, status |-> status, ret |-> ret]

\* the elements of a set of nodes, in the order a for loop visits them
PeerList(peers, ord) == SelectSeq(ord, LAMBDA x : x \in peers)

(***************************************************************************)
(* _find_split_point: the while loop, one iteration per unfolding.         *)
(***************************************************************************)
RECURSIVE FindSplitLoop(_, _, _, _)
FindSplitLoop(blocks, hash1, hash2, seen_hashes) ==
    IF ~(Truthy(hash1) \/ Truthy(hash2)) THEN GENESIS_BLOCK_PREV
    ELSE IF hash1 \in seen_hashes THEN hash1
    ELSE IF hash2 \in seen_hashes THEN hash2
    ELSE LET seen1 == IF hash1 # PyNone THEN seen_hashes \cup {hash1} ELSE seen_hashes
             next1 == IF hash1 = PyNone THEN PyNone
                      ELSE IF hash1 \in DOMAIN blocks THEN blocks[hash1].prev_block_hash
                      ELSE PyNone
             seen2 == IF hash2 # PyNone THEN seen1 \cup {hash2} ELSE seen1
             next2 == IF hash2 = PyNone THEN PyNone
                      ELSE IF hash2 \in DOMAIN blocks THEN blocks[hash2].prev_block_hash
                      ELSE PyNone
         IN  FindSplitLoop(blocks, next1, next2, seen2)

_find_split_point(blocks, hash1, hash2) == FindSplitLoop(blocks, hash1, hash2, {})

(***************************************************************************)
(* _rollback_to_split_point                                                *)
(***************************************************************************)
RECURSIVE RollbackTxs(_, _)
RollbackTxs(node, txs) ==
    IF txs = <<>> THEN node
    ELSE LET tx == Head(txs)
             u  == IF get_txid(tx) \in UtxoIds(node)
                   THEN WithoutId(node.utxo, get_txid(tx)) ELSE node.utxo
             m  == IF Truthy(tx.input) THEN Append(node.mempool, tx) ELSE node.mempool
         IN  RollbackTxs([node EXCEPT !.utxo = u, !.mempool = m], Tail(txs))

RECURSIVE RollbackLoop(_, _, _)
RollbackLoop(node, current_hash, split_point) ==
    IF current_hash = split_point THEN [node |-> node, status |-> "ok"]
    ELSE IF current_hash \notin DOMAIN node.blocks
         THEN [node |-> node, status |-> "raised"]
    ELSE LET block == node.blocks[current_hash]
         IN  RollbackLoop(RollbackTxs(node, block.transactions),
                          block.prev_block_hash, split_point)

_rollback_to_split_point(node, split_point) ==
    RollbackLoop(node, node.latest_block_hash, split_point)

(***************************************************************************)
(* _get_chain_to_tip and the roll-forward walk of _reorganize_chain: the   *)
(* blocks from a tip down to the split point, tip first; "raised" when the *)
(* walk leaves the block store (ValueError, resp. KeyError).               *)
(***************************************************************************)
RECURSIVE ChainLoop(_, _, _, _)
ChainLoop(blocks, current_hash, split_point, chain) ==
    IF current_hash = split_point THEN [chain |-> chain, status |-> "ok"]
    ELSE IF current_hash \notin DOMAIN blocks THEN [chain |-> chain, status |-> "raised"]
    ELSE ChainLoop(blocks, blocks[current_hash].prev_block_hash, split_point,
                   Append(chain, blocks[current_hash]))

_get_chain_to_tip(blocks, latest_block_hash, split_point) ==
    ChainLoop(blocks, latest_block_hash, split_point, <<>>)

RECURSIVE ChainTxs(_)
ChainTxs(chain) ==
    IF chain = <<>> THEN <<>> ELSE Head(chain).transactions \o ChainTxs(Tail(chain))

\* lines 183-188: apply the transactions of the new chain, oldest block first
RECURSIVE ApplyTxs(_, _)
ApplyTxs(utxo, txs) ==
    IF txs = <<>> THEN utxo
    ELSE LET tx == Head(txs)
             u  == IF Truthy(tx.input) THEN WithoutId(utxo, tx.input) ELSE utxo
         IN  ApplyTxs(Append(u, tx), Tail(txs))

(***************************************************************************)
(* _reorganize_chain: [node, status].  Lines 193-195 append to the list    *)
(* the loop is iterating, so the loop ends only when every entry of the    *)
(* mempool is stale; otherwise it never ends.                              *)
(***************************************************************************)
NodeStatus(node, status) == [node |-> node, status |-> status]

\* lines 192-195, on the node after roll-forward
ReconcileMempool(node, stale_txs) ==
    IF \E i \in DOMAIN node.mempool : get_txid(node.mempool[i]) \notin stale_txs
    THEN NodeStatus(node, "hang")
    ELSE NodeStatus(node, "ok")

\* lines 183-195: old_txs are the transactions of the rolled-back blocks,
\* new_txs those of the new chain from the split point to the new tip
RollForward(node, new_tip, old_txs, new_txs) ==
    ReconcileMempool([node EXCEPT !.utxo = ApplyTxs(@, new_txs),
                                  !.latest_block_hash = new_tip],
                     {get_txid(t) : t \in Range(old_txs)}
                        \ {get_txid(t) : t \in Range(new_txs)})

\* lines 170-180: old and fw are the results of the two chain walks
AfterRollback(node, new_tip, old, fw) ==
    IF old.status # "ok" \/ fw.status # "ok" THEN NodeStatus(node, "raised")
    ELSE RollForward(node, new_tip, ChainTxs(old.chain), ChainTxs(Reverse(fw.chain)))

\* line 168 on: rb is the result of the rollback of node to split_point
Reorganize(node, new_tip, split_point, rb) ==
    IF rb.status # "ok" THEN rb
    ELSE AfterRollback(rb.node, new_tip,
                       _get_chain_to_tip(node.blocks, node.latest_block_hash, split_point),
                       ChainLoop(node.blocks, new_tip, split_point, <<>>))

WithSplitPoint(node, new_tip, split_point) ==
    Reorganize(node, new_tip, split_point, _rollback_to_split_point(node, split_point))

_reorganize_chain(node, new_tip) ==
    WithSplitPoint(node, new_tip,
                   _find_split_point(node.blocks, node.latest_block_hash, new_tip))

(***************************************************************************)
(* notify_of_block, lines 76-90: the ancestor pull.  Ends at the genesis   *)
(* sentinel, at a known block, where sender.get_block raises ValueError    *)
(* (caught: break) or at the first invalid block (break).                  *)
(***************************************************************************)
Pulled(current_hash, valid_blocks) ==
    [current_hash |-> current_hash, valid_blocks |-> valid_blocks]

RECURSIVE PullLoop(_, _, _, _)
PullLoop(node, sender_blocks, current_hash, valid_blocks) ==
    IF current_hash = GENESIS_BLOCK_PREV \/ current_hash \in DOMAIN node.blocks
    THEN Pulled(current_hash, valid_blocks)
    ELSE IF current_hash \notin DOMAIN sender_blocks
    THEN Pulled(current_hash, valid_blocks)
    ELSE IF ~_is_valid_block(node, sender_blocks[current_hash])
    THEN Pulled(current_hash, valid_blocks)
    ELSE PullLoop(node, sender_blocks, sender_blocks[current_hash].prev_block_hash,
                  Append(valid_blocks, sender_blocks[current_hash]))

RECURSIVE PutBlocks(_, _)
PutBlocks(blocks, bs) ==
    IF bs = <<>> THEN blocks ELSE PutBlocks(PutBlock(blocks, Head(bs)), Tail(bs))

(***************************************************************************)
(* notify_of_block, lines 93-100: reversed(valid_blocks) visits the pulled *)
(* blocks oldest first; with the pull ended at genesis each is stored and  *)
(* appended to valid_blocks again, otherwise the oldest one is stored and  *)
(* the loop breaks.  The node with its store updated, and valid_blocks.    *)
(***************************************************************************)
Stored(node, valid_blocks) == [node |-> node, valid_blocks |-> valid_blocks]

StoreLoop(node, current_hash, valid_blocks) ==
    IF valid_blocks = <<>> THEN Stored(node, <<>>)
    ELSE IF current_hash = GENESIS_BLOCK_PREV
    THEN Stored([node EXCEPT !.blocks = PutBlocks(@, Reverse(valid_blocks))],
                valid_blocks \o Reverse(valid_blocks))
    ELSE Stored([node EXCEPT !.blocks = PutBlock(@, valid_blocks[Len(valid_blocks)])],
                valid_blocks)

\* lines 102-104
ForkChoice(node, block_hash) ==
    IF _get_chain_length(node.blocks, block_hash)
          > _get_chain_length(node.blocks, node.latest_block_hash)
    THEN _reorganize_chain(node, block_hash)
    ELSE NodeStatus(node, "ok")

\* line 107
Renotifies(node, valid_blocks) ==
    /\ valid_blocks # <<>>
    /\ get_block_hash(valid_blocks[Len(valid_blocks)]) = node.latest_block_hash

(***************************************************************************)
(* notify_of_block(block_hash, sender) on node n in state S, with the      *)
(* notifications it sends on (lines 106-109).  The call uses its sender    *)
(* through get_block alone: sender stands for the blocks that get_block    *)
(* returns, and get_block raises ValueError for every other hash           *)
(* (lines 293-300).                                                        *)
(***************************************************************************)
RECURSIVE notify_of_block(_, _, _, _, _)
RECURSIVE NotifyPeers(_, _, _, _, _)

\* lines 106-109: reorg is the result of lines 102-104
AfterForkChoice(S, n, ord, valid_blocks, reorg) ==
    IF reorg.status # "ok" THEN Result([S EXCEPT ![n] = reorg.node], reorg.status, PyNone)
    ELSE IF Renotifies(reorg.node, valid_blocks)
    THEN NotifyPeers([S EXCEPT ![n] = reorg.node], n,
                     PeerList(reorg.node.connections, ord),
                     reorg.node.latest_block_hash, ord)
    ELSE Result([S EXCEPT ![n] = reorg.node], "ok", PyNone)

AfterStore(S, n, block_hash, ord, stored) ==
    AfterForkChoice(S, n, ord, stored.valid_blocks, ForkChoice(stored.node, block_hash))

AfterPull(S, n, block_hash, ord, pulled) ==
    AfterStore(S, n, block_hash, ord,
               StoreLoop(S[n], pulled.current_hash, pulled.valid_blocks))

\* notify_of_block without the return of lines 67-69
notify_of_block_without_known_check(S, n, block_hash, sender, ord) ==
    AfterPull(S, n, block_hash, ord, PullLoop(S[n], sender, block_hash, <<>>))

notify_of_block(S, n, block_hash, sender, ord) ==
    IF block_hash \in DOMAIN S[n].blocks THEN Result(S, "ok", PyNone)
    ELSE AfterPull(S, n, block_hash, ord,
                   PullLoop(S[n], sender, block_hash, <<>>))

\* for neighbor in self.connections: neighbor.notify_of_block(block_hash, self)
NotifyRest(r, n, peers, block_hash, ord) ==
    IF r.status # "ok" THEN r ELSE NotifyPeers(r.S, n, peers, block_hash, ord)

NotifyPeers(S, n, peers, block_hash, ord) ==
    IF peers = <<>> THEN Result(S, "ok", PyNone)
    ELSE NotifyRest(notify_of_block(S, Head(peers), block_hash, S[n].blocks, ord),
                    n, Tail(peers), block_hash, ord)

(***************************************************************************)
(* add_transaction_to_mempool, with the calls into the peers (60-61).      *)
(* depth counts the nested calls: past RecursionLimit the interpreter      *)
(* raises RecursionError, which no frame catches.                          *)
(***************************************************************************)
RECURSIVE add_transaction_to_mempool(_, _, _, _, _)
RECURSIVE SendToPeers(_, _, _, _, _)

\* lines 55-58
Admit(node, transaction) ==
    [node EXCEPT !.utxo = WithoutId(@, transaction.input),
                 !.mempool = Append(@, transaction)]

Returns(r, ret) == Result(r.S, r.status, ret)

add_transaction_to_mempool(S, n, transaction, depth, ord) ==
    IF depth > RecursionLimit THEN Result(S, "raised", FALSE)
    ELSE IF ~verify(get_txid(transaction), transaction.signature, transaction.output)
    THEN Result(S, "ok", FALSE)
    ELSE IF Truthy(transaction.input) /\ transaction.input \notin UtxoIds(S[n])
    THEN Result(S, "ok", FALSE)
    ELSE Returns(SendToPeers([S EXCEPT ![n] = Admit(@, transaction)],
                             PeerList(S[n].connections, ord), transaction,
                             depth + 1, ord),
                 TRUE)

SendRest(r, peers, transaction, depth, ord) ==
    IF r.status # "ok" THEN r ELSE SendToPeers(r.S, peers, transaction, depth, ord)

SendToPeers(S, peers, transaction, depth, ord) ==
    IF peers = <<>> THEN Result(S, "ok", TRUE)
    ELSE SendRest(add_transaction_to_mempool(S, Head(peers), transaction, depth, ord),
                  Tail(peers), transaction, depth, ord)

(***************************************************************************)
(* create_transaction: the first entry of the UTXO list that no mempool    *)
(* entry spends, or 0 when there is none.                                  *)
(***************************************************************************)
Unspent(node) ==
    {i \in DOMAIN node.utxo :
        \A j \in DOMAIN node.mempool : node.mempool[j].input # get_txid(node.utxo[i])}

FirstUnspent(node) ==
    IF Unspent(node) = {} THEN 0
    ELSE CHOOSE i \in Unspent(node) : \A j \in Unspent(node) : i <= j

NoTx == Transaction("", PyNone, "")

\* lines 330-338
NewTransaction(n, target, txid) == Transaction(target, txid, sign(txid, PublicKey(n)))

CreateFrom(S, n, new_transaction, ord) ==
    Returns(add_transaction_to_mempool(S, n, new_transaction, 1, ord), new_transaction)

create_transaction(S, n, target, ord) ==
    IF FirstUnspent(S[n]) = 0 THEN Result(S, "ok", NoTx)
    ELSE CreateFrom(S, n, NewTransaction(n, target, get_txid(S[n].utxo[FirstUnspent(S[n])])),
                    ord)

(***************************************************************************)
(* mine_block.  Line 279 sits inside the loop, under the if: the mempool   *)
(* loses BLOCK_SIZE - 1 entries for every transaction of the block that    *)
(* was not yet in the UTXO list.                                           *)
(***************************************************************************)
DropHead(s, k) == IF Len(s) <= k THEN <<>> ELSE SubSeq(s, k + 1, Len(s))

TakeHead(s, k) == IF Len(s) <= k THEN s ELSE SubSeq(s, 1, k)

RECURSIVE MineLoop(_, _)
MineLoop(node, txs) ==
    IF txs = <<>> THEN node
    ELSE IF get_txid(Head(txs)) \notin UtxoIds(node)
    THEN MineLoop([node EXCEPT !.utxo = Append(@, Head(txs)),
                               !.mempool = DropHead(@, BLOCK_SIZE - 1)],
                  Tail(txs))
    ELSE MineLoop(node, Tail(txs))

\* lines 255-266, with the j-th nonce of node n
MinedBlock(node, n, j) ==
    Block(node.latest_block_hash,
          TakeHead(node.mempool, BLOCK_SIZE - 1)
             \o <<Transaction(PublicKey(n), PyNone, token_bytes(j))>>)

\* lines 268-279 without line 268: the new block becomes the tip and is not
\* stored
MinedWithoutStoring(node, new_block) ==
    MineLoop([node EXCEPT !.latest_block_hash = get_block_hash(new_block)],
             new_block.transactions)

\* lines 268-279
Mined(node, new_block) ==
    MineLoop([node EXCEPT !.blocks = PutBlock(@, new_block),
                          !.latest_block_hash = get_block_hash(new_block)],
             new_block.transactions)

MineWith(S, n, new_block, ord) ==
    Returns(NotifyPeers([S EXCEPT ![n] = Mined(@, new_block)], n,
                        PeerList(S[n].connections, ord), get_block_hash(new_block), ord),
            get_block_hash(new_block))

mine_block(S, n, j, ord) == MineWith(S, n, MinedBlock(S[n], n, j), ord)

(***************************************************************************)
(* connect                                                                 *)
(***************************************************************************)
Connected(S, n, other) ==
    [S EXCEPT ![n].connections = @ \cup {other}, ![other].connections = @ \cup {n}]

connect(S, n, other, ord) ==
    notify_of_block(Connected(S, n, other), other, S[n].latest_block_hash, S[n].blocks, ord)

(***************************************************************************)
(* The state machine.  nodes[n] is the state of node n; nonce[n] counts    *)
(* the coinbase nonces n drew; submitted counts the top-level calls of     *)
(* add_transaction_to_mempool; hung says that a call never returned, after *)
(* which the single-threaded driver makes no further call.  A call that    *)
(* raises leaves the nodes as they are at the raise, and the driver goes   *)
(* on.                                                                     *)
(***************************************************************************)
Init ==
    /\ nodes = [n \in Nodes |-> NewNode]
    /\ nonce = [n \in Nodes |-> 0]
    /\ submitted = 0
    /\ hung = FALSE
    /\ block_size = NarrowBlockSize

RECURSIVE Sum(_, _)
Sum(f, D) == IF D = {} THEN 0 ELSE LET d == CHOOSE x \in D : TRUE IN f[d] + Sum(f, D \ {d})

\* the blocks mined so far
MinedCount == Sum(nonce, Nodes)

\* the effect of a call that ended with result r
Ended(r) ==
    /\ nodes' = r.S
    /\ hung' = (r.status = "hang")
    /\ block_size' = block_size

\* the coinbase transactions of the blocks the nodes store
StoredCoinbases ==
    {t \in UNION {UNION {Range(nodes[n].blocks[h].transactions) :
                            h \in DOMAIN nodes[n].blocks} : n \in Nodes} :
        t.input = PyNone}

\* the signature of a transaction that spends coin to output: by the owner of
\* the coin over (input ++ output), or a self-verifying one
Signature(kind, coin, output) ==
    IF kind = "owner" THEN sign(get_txid(coin) \o output, coin.output)
    ELSE SelfSig(output, get_txid(coin))

\* the transactions a caller hands to a node: each moves a stored coinbase
\* to the address of another node than its owner
Spends ==
    {s \in StoredCoinbases \X Nodes \X {"owner", "self"} : PublicKey(s[2]) # s[1].output}

SubmittedTxs ==
    {Transaction(PublicKey(s[2]), get_txid(s[1]), Signature(s[3], s[1], PublicKey(s[2]))) :
        s \in Spends}

Connect(n, other) ==
    /\ ~hung /\ n # other
    /\ \E ord \in Orders : Ended(connect(nodes, n, other, ord))
    /\ UNCHANGED <<nonce, submitted>>

Submit(n) ==
    /\ ~hung /\ submitted < MaxSubmitted
    /\ submitted' = submitted + 1
    /\ \E tx \in SubmittedTxs, ord \in Orders :
          Ended(add_transaction_to_mempool(nodes, n, tx, 1, ord))
    /\ UNCHANGED nonce

CreateTransaction(n, target) ==
    /\ ~hung /\ n # target
    /\ \E ord \in Orders : Ended(create_transaction(nodes, n, PublicKey(target), ord))
    /\ UNCHANGED <<nonce, submitted>>

MineUpTo(n, enabled) ==
    /\ ~hung /\ enabled
    /\ nonce' = [nonce EXCEPT ![n] = @ + 1]
    /\ \E ord \in Orders : Ended(mine_block(nodes, n, nonce[n] + 1, ord))
    /\ UNCHANGED submitted

Mine(n) == MineUpTo(n, MinedCount < MaxMined)

Notify(n, sender) ==
    /\ ~hung /\ n # sender
    /\ \E block_hash \in DOMAIN nodes[sender].blocks, ord \in Orders :
          Ended(notify_of_block(nodes, n, block_hash, nodes[sender].blocks, ord))
    /\ UNCHANGED <<nonce, submitted>>

Next ==
    \E n \in Nodes :
        \/ \E other \in Nodes : Connect(n, other)
        \/ Submit(n)
        \/ \E target \in Nodes : CreateTransaction(n, target)
        \/ Mine(n)
        \/ \E sender \in Nodes : Notify(n, sender)

Spec == Init /\ [][Next]_vars

(***************************************************************************)
(* The two-role scenario: a miner and a spender, connected or not, one     *)
(* submitted transaction, the miner mining a long chain.  Every behaviour  *)
(* of it is a behaviour of the nodes under the same operations; only the   *)
(* caller is restricted.                                                   *)
(***************************************************************************)
Miner == "A"

Spender == "B"

MinerMines == MineUpTo(Miner, nonce[Miner] < MaxMinedByMiner)

SpenderMines == MineUpTo(Spender, nonce[Spender] < MaxMinedBySpender)

SubmitOnce(n) == submitted = 0 /\ Submit(n)

ConnectRoles == Connect(Miner, Spender)

NextRoles ==
    \/ ConnectRoles
    \/ \E n \in Nodes : SubmitOnce(n)
    \/ MinerMines
    \/ SpenderMines

SpecRoles == Init /\ [][NextRoles]_vars

\* the same two roles with blocks of the wide capacity, the spender mining
\* once more
InitWide ==
    /\ nodes = [n \in Nodes |-> NewNode]
    /\ nonce = [n \in Nodes |-> 0]
    /\ submitted = 0
    /\ hung = FALSE
    /\ block_size = WideBlockSize

SpenderMinesWide == MineUpTo(Spender, nonce[Spender] < MaxMinedBySpenderWide)

NextWide ==
    \/ ConnectRoles
    \/ \E n \in Nodes : SubmitOnce(n)
    \/ MinerMines
    \/ SpenderMinesWide

SpecWide == InitWide /\ [][NextWide]_vars

(***************************************************************************)
(* Notifications by a sender that cannot serve one of the blocks of its    *)
(* chain: its get_block raises ValueError for that hash.                   *)
(***************************************************************************)
Withholding(blocks, withheld) == [h \in DOMAIN blocks \ {withheld} |-> blocks[h]]

\* the senders a node may hear from: a node serving its whole store, or all
\* of it but one block
Senders(sender) ==
    {nodes[sender].blocks}
       \cup {Withholding(nodes[sender].blocks, w) : w \in DOMAIN nodes[sender].blocks}

NotifyWithheld(n, sender) ==
    /\ ~hung /\ n # sender
    /\ \E withheld \in DOMAIN nodes[sender].blocks :
          \E block_hash \in DOMAIN nodes[sender].blocks \ {withheld}, ord \in Orders :
             Ended(notify_of_block(nodes, n, block_hash,
                                   Withholding(nodes[sender].blocks, withheld), ord))
    /\ UNCHANGED <<nonce, submitted>>

MineWithheld(n) == MineUpTo(n, MinedCount < MaxMinedWithheld)

NextWithheld ==
    \E n \in Nodes :
        \/ MineWithheld(n)
        \/ \E sender \in Nodes : Notify(n, sender)
        \/ \E sender \in Nodes : NotifyWithheld(n, sender)

SpecWithheld == Init /\ [][NextWithheld]_vars

(***************************************************************************)
(* Vocabulary of the properties.  A property of a call is stated over the  *)
(* reachable states: in every state, each call the caller can make there   *)
(* ends as the property says.                                              *)
(***************************************************************************)
\* the chain of a store from the genesis sentinel to tip, oldest block first
ReachesGenesis(blocks, tip) ==
    ChainLoop(blocks, tip, GENESIS_BLOCK_PREV, <<>>).status = "ok"

ChainOf(blocks, tip) == Reverse(ChainLoop(blocks, tip, GENESIS_BLOCK_PREV, <<>>).chain)

\* the UTXO set one pass over the adopted chain gives
Replay(node) ==
    Range(ApplyTxs(<<>>, ChainTxs(ChainOf(node.blocks, node.latest_block_hash))))

\* a block that is valid whatever the receiver holds: one coinbase, no more
CoinbaseOnly(block) ==
    Len(block.transactions) = 1 /\ block.transactions[1].input = PyNone

ValidChain(blocks, tip) ==
    /\ ReachesGenesis(blocks, tip)
    /\ \A b \in Range(ChainOf(blocks, tip)) : CoinbaseOnly(b)

Height(node) == _get_chain_length(node.blocks, node.latest_block_hash)

\* the ancestor pull of notify_of_block(block_hash, sender) ends neither at
\* the genesis sentinel nor at a block the node knows
PullAborted(node, sender_blocks, block_hash) ==
    /\ block_hash \notin DOMAIN node.blocks
    /\ PullLoop(node, sender_blocks, block_hash, <<>>).current_hash # GENESIS_BLOCK_PREV
    /\ PullLoop(node, sender_blocks, block_hash, <<>>).current_hash \notin DOMAIN node.blocks

Triple(node) == <<node.utxo, node.mempool, node.latest_block_hash>>

\* the entry of the UTXO list a transaction spends is owned by key
OwnedBy(node, txid, key) ==
    \E i \in DOMAIN node.utxo : get_txid(node.utxo[i]) = txid /\ node.utxo[i].output = key

\* the signature is the owner's, over (input ++ output)
OwnerSigned(node, tx) ==
    \E m \in Nodes :
        /\ OwnedBy(node, tx.input, PublicKey(m))
        /\ verify(tx.input \o tx.output, tx.signature, PublicKey(m))

SpentInMempool(node, txid) ==
    \E i \in DOMAIN node.mempool : node.mempool[i].input = txid

\* notify_of_block(h, sender) on node n reaches line 108: it calls the peers
NotifiesPeers(S, n, h, sender) ==
    /\ h \notin DOMAIN S[n].blocks
    /\ ForkChoice(StoreLoop(S[n], PullLoop(S[n], sender, h, <<>>).current_hash,
                            PullLoop(S[n], sender, h, <<>>).valid_blocks).node, h).status = "ok"
    /\ Renotifies(ForkChoice(StoreLoop(S[n], PullLoop(S[n], sender, h, <<>>).current_hash,
                                       PullLoop(S[n], sender, h, <<>>).valid_blocks).node, h).node,
                  StoreLoop(S[n], PullLoop(S[n], sender, h, <<>>).current_hash,
                            PullLoop(S[n], sender, h, <<>>).valid_blocks).valid_blocks)

\* the sender's chain to h is valid, unknown to n at its tip, and not longer
\* than the chain of n
TieCase(n, sender, h) ==
    /\ n # sender
    /\ h \in DOMAIN nodes[sender].blocks
    /\ h \notin DOMAIN nodes[n].blocks
    /\ ValidChain(nodes[sender].blocks, h)
    /\ _get_chain_length(nodes[sender].blocks, h) <= Height(nodes[n])

\* C1: in every state a node's UTXO set is the set that replaying its
\* adopted chain from the genesis sentinel to latest_block_hash gives.
C1_ReplayEquivalence ==
    ~hung => \A n \in Nodes : Range(nodes[n].utxo) = Replay(nodes[n])

\* C2: when the sender holds a chain of valid blocks from genesis to h that
\* is strictly longer than the node's chain, the node's latest_block_hash
\* is h after notify_of_block(h, sender) returns.
C2_ForkChoice ==
    ~hung =>
      \A n \in Nodes, sender \in Nodes : \A h \in DOMAIN nodes[sender].blocks, ord \in Orders :
         (/\ n # sender
          /\ ValidChain(nodes[sender].blocks, h)
          /\ _get_chain_length(nodes[sender].blocks, h) > Height(nodes[n])
          /\ notify_of_block(nodes, n, h, nodes[sender].blocks, ord).status = "ok")
         => notify_of_block(nodes, n, h, nodes[sender].blocks, ord).S[n].latest_block_hash = h

\* C3: a notify_of_block whose ancestor pull ends at a failed fetch or at
\* an invalid block leaves the node's block store, UTXO list, mempool and
\* latest_block_hash as they were.
C3_AbortWithoutStateChange ==
    ~hung =>
      \A n \in Nodes, sender \in Nodes : \A from \in Senders(sender), ord \in Orders :
         \A h \in DOMAIN from :
            (n # sender /\ PullAborted(nodes[n], from, h))
            => /\ notify_of_block(nodes, n, h, from, ord).S[n].blocks = nodes[n].blocks
               /\ Triple(notify_of_block(nodes, n, h, from, ord).S[n]) = Triple(nodes[n])

\* C4: when a notify_of_block call ends, by return or by raise, the node's
\* (UTXO, mempool, latest_block_hash) is the triple before the call or the
\* state reorganized to the new tip.
C4_AtomicReorganization ==
    ~hung =>
      \A n \in Nodes, sender \in Nodes : \A from \in Senders(sender), ord \in Orders :
         \A h \in DOMAIN from :
            (n # sender /\ notify_of_block(nodes, n, h, from, ord).status # "hang")
            => \/ Triple(notify_of_block(nodes, n, h, from, ord).S[n]) = Triple(nodes[n])
               \/ notify_of_block(nodes, n, h, from, ord).S[n].latest_block_hash = h

\* C5: when A owns an unspent coin and is connected to B on the same chain,
\* the transaction create_transaction(B's address) returns is in A's mempool
\* after the call (part (i) of the transfer).
C5_CreatedTransactionAdmitted ==
    ~hung =>
      \A n \in Nodes, target \in Nodes, ord \in Orders :
         (/\ n # target
          /\ target \in nodes[n].connections
          /\ nodes[n].latest_block_hash = nodes[target].latest_block_hash
          /\ FirstUnspent(nodes[n]) # 0
          /\ nodes[n].utxo[FirstUnspent(nodes[n])].output = PublicKey(n))
         => create_transaction(nodes, n, PublicKey(target), ord).ret
               \in Range(create_transaction(nodes, n, PublicKey(target), ord).S[n].mempool)

\* C6: mine_block on a mempool m_1..m_n leaves exactly m_(k+1)..m_n, in
\* order, where k = min(n, BLOCK_SIZE - 1).
C6_MineKeepsTheRest ==
    ~hung =>
      \A n \in Nodes, ord \in Orders :
         (MinedCount < MaxMined /\ mine_block(nodes, n, nonce[n] + 1, ord).status = "ok")
         => mine_block(nodes, n, nonce[n] + 1, ord).S[n].mempool
               = DropHead(nodes[n].mempool, BLOCK_SIZE - 1)

\* C7: an add_transaction_to_mempool that returns True leaves the UTXO list
\* and the balance of the node it was called on as they were.
C7_SubmitKeepsUtxo ==
    (~hung /\ submitted < MaxSubmitted) =>
      \A n \in Nodes, tx \in SubmittedTxs, ord \in Orders :
         add_transaction_to_mempool(nodes, n, tx, 1, ord).ret = TRUE
         => /\ add_transaction_to_mempool(nodes, n, tx, 1, ord).S[n].utxo = nodes[n].utxo
            /\ \A m \in Nodes :
                  get_balance(add_transaction_to_mempool(nodes, n, tx, 1, ord).S[n], m)
                     = get_balance(nodes[n], m)

\* C8: for a transaction whose input is in the UTXO list and is spent by no
\* mempool entry, add_transaction_to_mempool returns True if and only if
\* the signature is the current owner's over (input ++ output).
C8_AdmissionSignatureRule ==
    (~hung /\ submitted < MaxSubmitted) =>
      \A n \in Nodes, tx \in SubmittedTxs, ord \in Orders :
         (tx.input \in UtxoIds(nodes[n]) /\ ~SpentInMempool(nodes[n], tx.input))
         => (add_transaction_to_mempool(nodes, n, tx, 1, ord).ret = TRUE
               <=> OwnerSigned(nodes[n], tx))

\* C9: in every state no two entries of a node's mempool have the same
\* non-null input.
C9_MempoolInputUniqueness ==
    ~hung =>
      \A n \in Nodes : \A i, j \in DOMAIN nodes[n].mempool :
         (nodes[n].mempool[i].input # PyNone
            /\ nodes[n].mempool[i].input = nodes[n].mempool[j].input) => i = j

\* C10: after X.connect(Y) between nodes with valid chains, the node whose
\* chain was shorter has the tip of the longer chain as latest_block_hash,
\* whichever node called; with equal lengths both keep their tip.
C10_ConnectSynchronizes ==
    ~hung =>
      \A x \in Nodes, y \in Nodes, ord \in Orders :
         (/\ x # y
          /\ ValidChain(nodes[x].blocks, nodes[x].latest_block_hash)
          /\ ValidChain(nodes[y].blocks, nodes[y].latest_block_hash)
          /\ connect(nodes, x, y, ord).status = "ok")
         => /\ Height(nodes[x]) < Height(nodes[y])
                  => connect(nodes, x, y, ord).S[x].latest_block_hash = nodes[y].latest_block_hash
            /\ Height(nodes[y]) < Height(nodes[x])
                  => connect(nodes, x, y, ord).S[y].latest_block_hash = nodes[x].latest_block_hash
            /\ Height(nodes[x]) = Height(nodes[y])
                  => /\ connect(nodes, x, y, ord).S[x].latest_block_hash = nodes[x].latest_block_hash
                     /\ connect(nodes, x, y, ord).S[y].latest_block_hash = nodes[y].latest_block_hash

\* C11: when the sender's chain to h is valid and not longer than the
\* node's chain, notify_of_block(h, sender) leaves latest_block_hash, the
\* UTXO list and the mempool as they were, records the candidate blocks in
\* the block store, and does not notify the peers.
C11_TieGoesToIncumbent ==
    ~hung =>
      \A n \in Nodes, sender \in Nodes : \A h \in DOMAIN nodes[sender].blocks, ord \in Orders :
         TieCase(n, sender, h)
         => /\ notify_of_block(nodes, n, h, nodes[sender].blocks, ord).status = "ok"
            /\ Triple(notify_of_block(nodes, n, h, nodes[sender].blocks, ord).S[n])
                  = Triple(nodes[n])
            /\ ~NotifiesPeers(nodes, n, h, nodes[sender].blocks)
            /\ \A b \in Range(ChainOf(nodes[sender].blocks, h)) :
                  get_block_hash(b)
                     \in DOMAIN notify_of_block(nodes, n, h, nodes[sender].blocks, ord).S[n].blocks

\* C12: notify_of_block(h, sender) on a node whose block store already has
\* the key h returns normally and changes nothing: the node's block store,
\* UTXO list, mempool and latest_block_hash and every other node are as
\* before, whatever the sender serves; a second notification of such a hash
\* therefore leaves the state the first one left.
C12_KnownHashIsNoOp ==
    ~hung =>
      \A n \in Nodes : \A sender \in Nodes \ {n} :
        \A h \in DOMAIN nodes[n].blocks, blocks \in Senders(sender), ord \in Orders :
           /\ notify_of_block(nodes, n, h, blocks, ord) = Result(nodes, "ok", PyNone)
           /\ notify_of_block(notify_of_block(nodes, n, h, blocks, ord).S, n, h, blocks, ord)
                 = notify_of_block(nodes, n, h, blocks, ord)

\* C12 witness: a node is notified of a hash it stores whose stored chain is
\* longer than the chain it has adopted, by a sender that serves the hash
C12_KnownLongerChainNotified ==
    /\ ~hung
    /\ \E n \in Nodes : \E sender \in Nodes \ {n} :
         \E h \in DOMAIN nodes[n].blocks \cap DOMAIN nodes[sender].blocks :
            /\ _get_chain_length(nodes[n].blocks, h) > Height(nodes[n])
            /\ \E ord \in Orders :
                  notify_of_block(nodes, n, h, nodes[sender].blocks, ord).S = nodes

\* the block a miner m would offer on top of node n's chain, holding tx and
\* m's next coinbase
CandidateBlock(n, m, tx) ==
    Block(nodes[n].latest_block_hash,
          <<tx, Transaction(PublicKey(m), PyNone, token_bytes(nonce[m] + 1))>>)

\* C14: a candidate block on top of a node's chain, holding one transaction
\* that spends a coin and one coinbase, passes the node's _is_valid_block
\* exactly when the transaction's input is an identifier in the node's UTXO
\* list and its signature verifies under the key owning that entry; whether
\* the transaction's own identifier is in the UTXO list plays no part.
C14_ValidationChecksSpentInput ==
    ~hung =>
      \A n \in Nodes, m \in Nodes, tx \in SubmittedTxs :
         _is_valid_block(nodes[n], CandidateBlock(n, m, tx))
            <=> (tx.input \in UtxoIds(nodes[n]) /\ OwnerSigned(nodes[n], tx))

\* C15: every call of notify_of_block returns or raises after finitely many
\* steps, also when the notified node reorganizes with a non-empty mempool;
\* no call of it never ends.
C15_NotifyTerminates ==
    ~hung =>
      \A n \in Nodes : \A sender \in Nodes \ {n} :
        \A h \in DOMAIN nodes[sender].blocks, ord \in Orders :
           notify_of_block(nodes, n, h, nodes[sender].blocks, ord).status # "hang"

\* transactions without input whose signature passes the check of line 49
CoinlessTxs ==
    {Transaction(PublicKey(m), PyNone, SelfSig(PublicKey(m), PyNone)) : m \in Nodes}

\* how often a mempool holds a transaction
Copies(mempool, tx) == Cardinality({i \in DOMAIN mempool : mempool[i] = tx})

\* C16: one call of add_transaction_to_mempool(tx) by a user returns, and
\* during it each node appends tx to its mempool (and so forwards it) at
\* most once, on any peer graph, for a transaction spending a coin and for
\* one without input that passes the admission checks.
C16_BoundedPropagation ==
    ~hung =>
      \A n \in Nodes, tx \in SubmittedTxs \cup CoinlessTxs, ord \in Orders :
         /\ add_transaction_to_mempool(nodes, n, tx, 1, ord).status = "ok"
         /\ \A m \in Nodes :
               Copies(add_transaction_to_mempool(nodes, n, tx, 1, ord).S[m].mempool, tx)
                  <= Copies(nodes[m].mempool, tx) + 1

\* the nodes reachable from the set seen along connections
RECURSIVE Reachable(_)
Reachable(seen) ==
    IF UNION {nodes[m].connections : m \in seen} \subseteq seen THEN seen
    ELSE Reachable(seen \cup UNION {nodes[m].connections : m \in seen})

\* the peer graph is connected and all nodes have adopted the same chain,
\* each storing all of it
SharedChain ==
    /\ \A m \in Nodes : Reachable({m}) = Nodes
    /\ \A m \in Nodes :
          /\ ReachesGenesis(nodes[m].blocks, nodes[m].latest_block_hash)
          /\ \A k \in Nodes : nodes[k].latest_block_hash = nodes[m].latest_block_hash

\* C17: in a connected peer graph whose nodes all share the same chain, a
\* mine_block that makes a coinbase-only block returns with every node on
\* the new block: latest_block_hash equals the returned hash everywhere.
C17_TipPropagation ==
    ~hung =>
      \A n \in Nodes, ord \in Orders :
         (SharedChain /\ nodes[n].mempool = <<>>)
         => /\ mine_block(nodes, n, nonce[n] + 1, ord).status = "ok"
            /\ \A m \in Nodes :
                  mine_block(nodes, n, nonce[n] + 1, ord).S[m].latest_block_hash
                     = mine_block(nodes, n, nonce[n] + 1, ord).ret

\* the identifiers of the transactions in the blocks of a node's adopted chain
ConfirmedIds(node) ==
    {get_txid(t) : t \in Range(ChainTxs(ChainOf(node.blocks, node.latest_block_hash)))}

\* the mempool a reorganization may leave: no entry is confirmed on the
\* adopted chain, every entry spends an identifier of the UTXO list, and no
\* entry occurs twice
Reconciled(node) ==
    \A i \in DOMAIN node.mempool :
       /\ get_txid(node.mempool[i]) \notin ConfirmedIds(node)
       /\ Truthy(node.mempool[i].input) => node.mempool[i].input \in UtxoIds(node)
       /\ Copies(node.mempool, node.mempool[i]) = 1

\* C18: when notify_of_block returns after a reorganization (the node's
\* latest_block_hash changed), the node's mempool holds no transaction
\* confirmed on the adopted chain, no transaction whose input is missing
\* from the new UTXO list, and no transaction twice.
C18_MempoolReconciled ==
    ~hung =>
      \A n \in Nodes : \A sender \in Nodes \ {n} :
        \A h \in DOMAIN nodes[sender].blocks, ord \in Orders :
           ( /\ notify_of_block(nodes, n, h, nodes[sender].blocks, ord).status = "ok"
             /\ notify_of_block(nodes, n, h, nodes[sender].blocks, ord).S[n].latest_block_hash
                   # nodes[n].latest_block_hash )
           => Reconciled(notify_of_block(nodes, n, h, nodes[sender].blocks, ord).S[n])

\* the hashes of the stored blocks on the walk from hash towards genesis
RECURSIVE Ancestry(_, _)
Ancestry(blocks, hash) ==
    IF hash \in DOMAIN blocks
    THEN {hash} \cup Ancestry(blocks, blocks[hash].prev_block_hash)
    ELSE {}

\* the block on both walks that is nearest to the tips, or the genesis
\* sentinel when they share no block
LowestCommonAncestor(blocks, t, h) ==
    IF Ancestry(blocks, t) \cap Ancestry(blocks, h) = {} THEN GENESIS_BLOCK_PREV
    ELSE CHOOSE c \in Ancestry(blocks, t) \cap Ancestry(blocks, h) :
            \A d \in Ancestry(blocks, t) \cap Ancestry(blocks, h) :
               _get_chain_length(blocks, d) <= _get_chain_length(blocks, c)

\* node n as notify_of_block(h, sender) has it at line 102, after the store
\* loop
StoredBy(n, sender, h) ==
    StoreLoop(nodes[n], PullLoop(nodes[n], nodes[sender].blocks, h, <<>>).current_hash,
              PullLoop(nodes[n], nodes[sender].blocks, h, <<>>).valid_blocks).node

\* notify_of_block(h, sender) on node n reaches line 104
TriggersReorg(n, sender, h) ==
    /\ h \in DOMAIN nodes[sender].blocks
    /\ h \notin DOMAIN nodes[n].blocks
    /\ _get_chain_length(StoredBy(n, sender, h).blocks, h) > Height(StoredBy(n, sender, h))

\* a walk of _reorganize_chain ends normally and visits each of hashes once
\* and nothing else
WalksExactly(walk, hashes) ==
    /\ walk.status = "ok"
    /\ {get_block_hash(b) : b \in Range(walk.chain)} = hashes
    /\ Len(walk.chain) = Cardinality(hashes)

SplitPointIsLca(node, h) ==
    /\ _find_split_point(node.blocks, node.latest_block_hash, h)
          = LowestCommonAncestor(node.blocks, node.latest_block_hash, h)
    /\ WalksExactly(_get_chain_to_tip(node.blocks, node.latest_block_hash,
                        _find_split_point(node.blocks, node.latest_block_hash, h)),
                    Ancestry(node.blocks, node.latest_block_hash)
                       \ Ancestry(node.blocks, h))
    /\ WalksExactly(ChainLoop(node.blocks, h,
                        _find_split_point(node.blocks, node.latest_block_hash, h), <<>>),
                    Ancestry(node.blocks, h)
                       \ Ancestry(node.blocks, node.latest_block_hash))

\* C19: whenever notify_of_block(h, sender) starts a reorganization from the
\* node's tip t to the longer stored chain of h, _find_split_point(t, h) is
\* the lowest common ancestor of t and h (the genesis sentinel when they
\* share no block), the rollback walk covers exactly the blocks of t's chain
\* that are not on h's, and the roll-forward walk exactly the blocks of h's
\* chain that are not on t's.
C19_SplitPointIsLca ==
    ~hung =>
      \A n \in Nodes : \A sender \in Nodes \ {n} : \A h \in DOMAIN nodes[sender].blocks :
         TriggersReorg(n, sender, h) => SplitPointIsLca(StoredBy(n, sender, h), h)

\* the transactions of a list that spend a coin
SpendCount(txs) == Cardinality({i \in DOMAIN txs : Truthy(txs[i].input)})

\* C20: no identifier occurs twice in a node's UTXO list, and mine_block
\* changes the length of the miner's UTXO list by the number of
\* transactions of the mined block minus the number of inputs they spend.
C20_UtxoUniqueAndConserved ==
    /\ \A n \in Nodes : \A i, j \in DOMAIN nodes[n].utxo :
          get_txid(nodes[n].utxo[i]) = get_txid(nodes[n].utxo[j]) => i = j
    /\ ~hung =>
         \A n \in Nodes, ord \in Orders :
            Len(mine_block(nodes, n, nonce[n] + 1, ord).S[n].utxo)
               = Len(nodes[n].utxo)
                    + Len(MinedBlock(nodes[n], n, nonce[n] + 1).transactions)
                    - SpendCount(MinedBlock(nodes[n], n, nonce[n] + 1).transactions)

\* no two transactions of the block spend the same input
DistinctInputs(block) ==
    \A i, j \in DOMAIN block.transactions :
       ( /\ Truthy(block.transactions[i].input)
         /\ block.transactions[i].input = block.transactions[j].input ) => i = j

\* C13: every block a node's _is_valid_block accepts from a sender, and
\* every block on a node's adopted chain, has pairwise distinct non-null
\* inputs.
C13_NoDoubleSpendInBlock ==
    /\ \A n \in Nodes : \A sender \in Nodes \ {n} : \A h \in DOMAIN nodes[sender].blocks :
          _is_valid_block(nodes[n], nodes[sender].blocks[h])
             => DistinctInputs(nodes[sender].blocks[h])
    /\ \A n \in Nodes :
          \A h \in Ancestry(nodes[n].blocks, nodes[n].latest_block_hash) :
             DistinctInputs(nodes[n].blocks[h])

\* the chain pointer of a node is the genesis sentinel or a key of its block
\* store, and the walk along prev_block_hash from it stays in the store
\* until it reaches the genesis sentinel
WellFormedPointer(node) ==
    /\ node.latest_block_hash \in DOMAIN node.blocks \cup {GENESIS_BLOCK_PREV}
    /\ ReachesGenesis(node.blocks, node.latest_block_hash)

\* a step removes no entry of a block store and replaces none
StoresGrow ==
    \A n \in Nodes : \A h \in DOMAIN nodes[n].blocks :
       /\ h \in DOMAIN nodes'[n].blocks
       /\ nodes'[n].blocks[h] = nodes[n].blocks[h]

====
